---------------------------- MODULE Spec2Model ----------------------------
(***************************************************************************)
(* The first-person camera of kiss3d (src/camera/first_person.rs) as a     *)
(* state machine.  f32 values are fixed-point integers with three decimal  *)
(* digits (1.0 is One, angles are milliradians); NaN is a marker value     *)
(* that every arithmetic operator propagates, as IEEE arithmetic does.     *)
(* Besides the fields of the camera the state records the last call (op),  *)
(* the camera that call started from (before) and the inverse that the     *)
(* last update_projviews started from (inverse_on_entry).                  *)
(***************************************************************************)
EXTENDS Integers, Sequences, FiniteSets, TLC

-----------------------------------------------------------------------------
(* f32 arithmetic                                                          *)

One == 1000
NaN == -2000000000
Inf == 2000000000

Abs(a) == IF a < 0 THEN -a ELSE a

\* let x = e; F(x)
Let(e, F(_)) == F(e)

\* Option<T>: the empty tuple is None, a one-element tuple is Some
None == <<>>
Some(x) == <<x>>

\* integer quotient rounded to nearest, as an f32 operation rounds its result
RDiv(a, b) ==
    LET n == IF b < 0 THEN -a ELSE a
        d == IF b < 0 THEN -b ELSE b
    IN  (2 * n + d) \div (2 * d)

fNeg(a) == IF a = NaN THEN NaN ELSE -a
fAdd(a, b) == IF a = NaN \/ b = NaN THEN NaN ELSE a + b
fSub(a, b) == IF a = NaN \/ b = NaN THEN NaN ELSE a - b
\* the product, rounded to nearest
fMul(a, b) == IF a = NaN \/ b = NaN THEN NaN ELSE (a * b + One \div 2) \div One
\* x / 0 is NaN for x = 0 and infinite otherwise; x / inf is 0
fDiv(a, b) ==
    IF a = NaN \/ b = NaN THEN NaN
    ELSE IF b = Inf THEN 0
    ELSE IF b = 0 THEN (IF a = 0 THEN NaN ELSE Inf)
    ELSE RDiv(a * One, b)
\* comparisons with NaN are false
fLe(a, b) == a # NaN /\ b # NaN /\ a <= b
fGt(a, b) == a # NaN /\ b # NaN /\ a > b

RECURSIVE SqrtSearch(_, _, _)
SqrtSearch(n, lo, hi) ==
    IF lo >= hi THEN lo
    ELSE LET mid == (lo + hi + 1) \div 2
         IN  IF mid * mid <= n THEN SqrtSearch(n, mid, hi)
             ELSE SqrtSearch(n, lo, mid - 1)
\* square root of a non-negative integer, rounded to nearest
ISqrt(n) ==
    Let(SqrtSearch(n, 0, 46340), LAMBDA r :
        IF r < 46340 /\ n - r * r > r THEN r + 1 ELSE r)

-----------------------------------------------------------------------------
(* f32::consts::PI and the trigonometric functions, angles in milliradians *)

PI == 3142
HalfPi == 1571
TwoPi == 6283

\* one factor of the nested Taylor series: 1 - (x^2 / d) * prev, scale 10^4
Horner(x2, d, prev) == 10000 - RDiv(RDiv(x2, 10 * d) * prev, 100000)
\* sin and cos on [0, pi/4], scale 10^4
SinSeries(x) ==
    LET x2 == x * x
    IN  RDiv(x * Horner(x2, 6, Horner(x2, 20, Horner(x2, 42, 10000))), One)
CosSeries(x) ==
    LET x2 == x * x
    IN  Horner(x2, 2, Horner(x2, 12, Horner(x2, 30, Horner(x2, 56, 10000))))
\* sin and cos on [0, pi/2]
SinQ(x) == RDiv(IF 2 * x <= HalfPi THEN SinSeries(x) ELSE CosSeries(HalfPi - x), 10)
CosQ(x) == RDiv(IF 2 * x <= HalfPi THEN CosSeries(x) ELSE SinSeries(HalfPi - x), 10)
\* the angle brought into (-pi, pi]
Wrap(a) == LET m == a % TwoPi IN IF m > PI THEN m - TwoPi ELSE m
Sin(a) ==
    IF a = NaN THEN NaN
    ELSE Let(Wrap(a), LAMBDA w :
         Let(IF Abs(w) <= HalfPi THEN SinQ(Abs(w)) ELSE SinQ(PI - Abs(w)), LAMBDA s :
             IF w < 0 THEN -s ELSE s))
Cos(a) ==
    IF a = NaN THEN NaN
    ELSE Let(Abs(Wrap(a)), LAMBDA x :
             IF x <= HalfPi THEN CosQ(x) ELSE -CosQ(PI - x))

RECURSIVE AtanSearch(_, _, _, _)
\* the least angle a in lo..hi with tan(a) >= n / d, for 0 <= n <= d, d > 0
AtanSearch(n, d, lo, hi) ==
    IF lo >= hi THEN lo
    ELSE LET mid == (lo + hi) \div 2
         IN  IF SinSeries(mid) * d >= CosSeries(mid) * n
             THEN AtanSearch(n, d, lo, mid)
             ELSE AtanSearch(n, d, mid + 1, hi)
AtanRatio(n, d) ==
    Let(AtanSearch(n, d, 0, 786), LAMBDA a :
        \* of a and a - 1, the angle whose tangent is nearer
        IF a > 0 /\ SinSeries(a) * d - CosSeries(a) * n
                    > CosSeries(a - 1) * n - SinSeries(a - 1) * d
        THEN a - 1 ELSE a)
\* f32::atan2(y, x), in (-pi, pi]
Atan2(y, x) ==
    IF y = NaN \/ x = NaN THEN NaN
    ELSE IF y = 0 /\ x = 0 THEN 0
    ELSE Let(IF Abs(y) <= Abs(x) THEN AtanRatio(Abs(y), Abs(x))
             ELSE HalfPi - AtanRatio(Abs(x), Abs(y)), LAMBDA base :
         Let(IF x >= 0 THEN base ELSE PI - base, LAMBDA ang :
             IF y < 0 THEN -ang ELSE ang))
\* f32::acos of the quotient n / d: NaN outside [-1, 1] and for 0 / 0
AcosRatio(n, d) ==
    IF n = NaN \/ d = NaN THEN NaN
    ELSE IF d = 0 \/ Abs(n) > Abs(d) THEN NaN
    ELSE Atan2(ISqrt(d * d - n * n), IF d < 0 THEN -n ELSE n)

-----------------------------------------------------------------------------
(* Vector3 / Point3: triples <<x, y, z>>                                    *)

Zero3 == <<0, 0, 0>>
NaN3 == <<NaN, NaN, NaN>>
XAxis == <<One, 0, 0>>
YAxis == <<0, One, 0>>
ZAxis == <<0, 0, One>>

vAdd(a, b) == <<fAdd(a[1], b[1]), fAdd(a[2], b[2]), fAdd(a[3], b[3])>>
vSub(a, b) == <<fSub(a[1], b[1]), fSub(a[2], b[2]), fSub(a[3], b[3])>>
vNeg(a) == <<fNeg(a[1]), fNeg(a[2]), fNeg(a[3])>>
vScale(a, s) == <<fMul(a[1], s), fMul(a[2], s), fMul(a[3], s)>>
Dot(a, b) == fAdd(fAdd(fMul(a[1], b[1]), fMul(a[2], b[2])), fMul(a[3], b[3]))
Cross(a, b) ==
    << fSub(fMul(a[2], b[3]), fMul(a[3], b[2])),
       fSub(fMul(a[3], b[1]), fMul(a[1], b[3])),
       fSub(fMul(a[1], b[2]), fMul(a[2], b[1])) >>
HasNaN3(a) == a[1] = NaN \/ a[2] = NaN \/ a[3] = NaN
Norm(a) ==
    IF HasNaN3(a) THEN NaN
    ELSE ISqrt(a[1] * a[1] + a[2] * a[2] + a[3] * a[3])
\* v / |v|: the zero vector becomes NaN in every component
Normalize(a) ==
    Let(Norm(a), LAMBDA n : <<fDiv(a[1], n), fDiv(a[2], n), fDiv(a[3], n)>>)
\* Vector3::is_zero
IsZero3(a) == a = Zero3
\* a != b on vectors: NaN differs from everything, itself included
vNe(a, b) == HasNaN3(a) \/ HasNaN3(b) \/ a # b

-----------------------------------------------------------------------------
(* Rotations (UnitQuaternion, Rotation3): 3x3 matrices, tuples of rows      *)

Identity3 == <<XAxis, YAxis, ZAxis>>
NaNRot == <<NaN3, NaN3, NaN3>>
RotHasNaN(r) == HasNaN3(r[1]) \/ HasNaN3(r[2]) \/ HasNaN3(r[3])
RotApply(r, v) == <<Dot(r[1], v), Dot(r[2], v), Dot(r[3], v)>>
\* the inverse of a rotation is its transpose
RotInverse(r) ==
    << <<r[1][1], r[2][1], r[3][1]>>,
       <<r[1][2], r[2][2], r[3][2]>>,
       <<r[1][3], r[2][3], r[3][3]>> >>
\* UnitQuaternion::from_rotation_matrix: a NaN entry makes every component NaN
FromRotationMatrix(r) == IF RotHasNaN(r) THEN NaNRot ELSE r
\* UnitQuaternion::from_axis_angle (Rodrigues' formula), k a unit axis
FromAxisAngle(k, angle) ==
    Let(Cos(angle), LAMBDA c :
    Let(Sin(angle), LAMBDA s :
    LET t == fSub(One, c)
        E(i, j) == fAdd(fAdd(IF i = j THEN c ELSE 0,
                             fMul(s, IF j = (i % 3) + 1 THEN fNeg(k[((i + 1) % 3) + 1])
                                     ELSE IF i = (j % 3) + 1 THEN k[((j + 1) % 3) + 1]
                                     ELSE 0)),
                        fMul(t, fMul(k[i], k[j])))
    IN  FromRotationMatrix(
          << <<E(1, 1), E(1, 2), E(1, 3)>>,
             <<E(2, 1), E(2, 2), E(2, 3)>>,
             <<E(3, 1), E(3, 2), E(3, 3)>> >>)))
\* UnitQuaternion::rotation_between_axis(a, b): None when a and b are
\* anti-parallel, the identity when they are parallel
RotationBetweenAxis(a, b) ==
    Let(Cross(a, b), LAMBDA c :
    Let(Dot(a, b), LAMBDA cos :
        IF fGt(Norm(c), 0)
        THEN IF fLe(cos, -One) THEN None
             ELSE IF fLe(One, cos) THEN Some(Identity3)
             ELSE Some(FromAxisAngle(Normalize(c), AcosRatio(cos, One)))
        ELSE IF fGt(0, cos) THEN None
        ELSE Some(Identity3)))
\* Rotation3::face_towards(dir, up): columns are the x, y and z axes
FaceTowards(dir, up) ==
    Let(Normalize(dir), LAMBDA zaxis :
    Let(Normalize(Cross(up, zaxis)), LAMBDA xaxis :
    Let(Normalize(Cross(zaxis, xaxis)), LAMBDA yaxis :
        FromRotationMatrix(
          << <<xaxis[1], yaxis[1], zaxis[1]>>,
             <<xaxis[2], yaxis[2], zaxis[2]>>,
             <<xaxis[3], yaxis[3], zaxis[3]>> >>))))

-----------------------------------------------------------------------------
(* Matrix4: tuples of four rows                                            *)

Zero4 == <<0, 0, 0, 0>>
ZeroMatrix == <<Zero4, Zero4, Zero4, Zero4>>
MatMul(a, b) ==
    LET E(i, j) == fAdd(fAdd(fAdd(fMul(a[i][1], b[1][j]), fMul(a[i][2], b[2][j])),
                             fMul(a[i][3], b[3][j])), fMul(a[i][4], b[4][j]))
        Row(i) == <<E(i, 1), E(i, 2), E(i, 3), E(i, 4)>>
    IN  <<Row(1), Row(2), Row(3), Row(4)>>
\* Isometry3::to_homogeneous
ToHomogeneous(r, t) ==
    << <<r[1][1], r[1][2], r[1][3], t[1]>>,
       <<r[2][1], r[2][2], r[2][3], t[2]>>,
       <<r[3][1], r[3][2], r[3][3], t[3]>>,
       <<0, 0, 0, One>> >>
\* Isometry3::look_at_rh(eye, target, up).to_homogeneous()
LookAtRh(from, target, up) ==
    Let(RotInverse(FaceTowards(vNeg(vSub(target, from)), up)), LAMBDA r :
        ToHomogeneous(r, RotApply(r, vNeg(from))))

NaN4 == <<NaN, NaN, NaN, NaN>>
NaNMatrix == <<NaN4, NaN4, NaN4, NaN4>>
HasNaN4(a) == a[1] = NaN \/ a[2] = NaN \/ a[3] = NaN \/ a[4] = NaN
MatHasNaN(m) == HasNaN4(m[1]) \/ HasNaN4(m[2]) \/ HasNaN4(m[3]) \/ HasNaN4(m[4])
\* the product of three numbers, rounded after each multiplication
Mul3(a, b, c) == (((a * b + One \div 2) \div One) * c + One \div 2) \div One
\* the three indices of 1..4 other than i, ascending
Others(i) == IF i = 1 THEN <<2, 3, 4>> ELSE IF i = 2 THEN <<1, 3, 4>>
             ELSE IF i = 3 THEN <<1, 2, 4>> ELSE <<1, 2, 3>>
\* entry (i, j) of the adjugate of a matrix of numbers: the signed minor
\* without row j and column i
Adjugate(m, i, j) ==
    LET r == Others(j)
        c == Others(i)
        T(p, q, s) == Mul3(m[r[1]][c[p]], m[r[2]][c[q]], m[r[3]][c[s]])
    IN  Let(T(1, 2, 3) - T(1, 3, 2) - T(2, 1, 3) + T(3, 1, 2) + T(2, 3, 1) - T(3, 2, 1),
            LAMBDA d : IF (i + j) % 2 = 0 THEN d ELSE -d)
\* NaN when an entry is NaN: every entry is a factor of some term
Determinant(m) ==
    IF MatHasNaN(m) THEN NaN
    ELSE fAdd(fAdd(fAdd(fMul(m[1][1], Adjugate(m, 1, 1)), fMul(m[2][1], Adjugate(m, 1, 2))),
                   fMul(m[3][1], Adjugate(m, 1, 3))), fMul(m[4][1], Adjugate(m, 1, 4)))
\* Matrix4::try_inverse: None when the determinant is zero (a NaN
\* determinant is not zero, and the result is then NaN throughout)
TryInverse(m) ==
    Let(Determinant(m), LAMBDA det :
        LET E(i, j) == fDiv(Adjugate(m, i, j), det)
            Row(i) == <<E(i, 1), E(i, 2), E(i, 3), E(i, 4)>>
        IN  IF det = 0 THEN None
            ELSE IF det = NaN THEN Some(NaNMatrix)
            ELSE Some(<<Row(1), Row(2), Row(3), Row(4)>>))

-----------------------------------------------------------------------------
(* Perspective3: its matrix                                                *)

\* Perspective3::new(aspect, fovy, znear, zfar)
PerspectiveNew(aspect, fovy, znear, zfar) ==
    Let(fDiv(fovy, 2 * One), LAMBDA half :
    Let(fDiv(Cos(half), Sin(half)), LAMBDA m11 :
        << <<fDiv(m11, aspect), 0, 0, 0>>,
           <<0, m11, 0, 0>>,
           <<0, 0, fDiv(fAdd(zfar, znear), fSub(znear, zfar)),
                   fDiv(fMul(fMul(zfar, znear), 2 * One), fSub(znear, zfar))>>,
           <<0, 0, -One, 0>> >>))
\* Perspective3::set_aspect: m00 = m11 / aspect
SetAspect(p, aspect) ==
    << <<fDiv(p[2][2], aspect), p[1][2], p[1][3], p[1][4]>>, p[2], p[3], p[4] >>

-----------------------------------------------------------------------------
(* struct FirstPerson                                                      *)

VARIABLES eye, yaw, pitch, yaw_step, pitch_step, move_step,
          rotate_button, drag_button, up_key, down_key, left_key, right_key,
          projection, proj, view, proj_view, inverse_proj_view,
          last_cursor_pos, coord_system,
          inverse_on_entry, \* history: inverse_proj_view as the last
                            \* update_projviews found it
          op,     \* the call that produced this state, with its arguments
          before, \* the camera as it was when that call was made
          steps   \* calls made since construction

fields == <<eye, yaw, pitch, yaw_step, pitch_step, move_step,
            rotate_button, drag_button, up_key, down_key, left_key, right_key,
            projection, proj, view, proj_view, inverse_proj_view,
            last_cursor_pos, coord_system, inverse_on_entry>>
vars == <<fields, op, before, steps>>

\* the camera as one value: what &self / &mut self refers to
Self ==
    [eye |-> eye, yaw |-> yaw, pitch |-> pitch, yaw_step |-> yaw_step,
     pitch_step |-> pitch_step, move_step |-> move_step,
     rotate_button |-> rotate_button, drag_button |-> drag_button,
     up_key |-> up_key, down_key |-> down_key, left_key |-> left_key,
     right_key |-> right_key, projection |-> projection, proj |-> proj,
     view |-> view, proj_view |-> proj_view,
     inverse_proj_view |-> inverse_proj_view,
     last_cursor_pos |-> last_cursor_pos, coord_system |-> coord_system,
     inverse_on_entry |-> inverse_on_entry]

\* the fields of the camera c, without the history
Fields(c) == [c EXCEPT !.inverse_on_entry = ZeroMatrix]

PitchMargin == 10
DefaultStep == 5
DefaultMoveStep == 500
PanScale == 10
PanDivisor == 10000

\* from_up_axis falling back to the identity for an anti-parallel axis
from_up_axis_identity_fallback(up_axis) ==
    Let(RotationBetweenAxis(up_axis, YAxis), LAMBDA r :
        [up_axis |-> up_axis,
         rotation_to_y_up |-> IF r = None THEN Identity3 ELSE r[1]])
\* CoordSystemRh::from_up_axis
from_up_axis(up_axis) ==
    Let(RotationBetweenAxis(up_axis, YAxis), LAMBDA r :
        [up_axis |-> up_axis,
         rotation_to_y_up |-> IF r = None THEN FromAxisAngle(XAxis, PI) ELSE r[1]])

\* FirstPerson::at
at(c) ==
    Let(RotApply(c.coord_system.rotation_to_y_up, c.eye), LAMBDA view_eye :
        LET ax == fAdd(view_eye[1], fMul(Cos(c.yaw), Sin(c.pitch)))
            ay == fAdd(view_eye[2], Cos(c.pitch))
            az == fAdd(view_eye[3], fMul(Sin(c.yaw), Sin(c.pitch)))
        IN  RotApply(RotInverse(c.coord_system.rotation_to_y_up), <<ax, ay, az>>))

\* Camera::view_transform, as a homogeneous matrix
view_transform(c) == LookAtRh(c.eye, at(c), c.coord_system.up_axis)

\* FirstPerson::observer_frame: its rotation part
observer_frame(c) == FaceTowards(vSub(at(c), c.eye), c.coord_system.up_axis)

\* update_projviews with the factors of the product exchanged
update_projviews_view_first(c) ==
    Let(view_transform(c), LAMBDA v :
    Let(c.projection, LAMBDA p :
    Let(MatMul(v, p), LAMBDA pv :
    Let(TryInverse(pv), LAMBDA inv :
        [c EXCEPT !.view = v, !.proj = p, !.proj_view = pv,
                  !.inverse_proj_view = IF inv = None THEN @ ELSE inv[1],
                  !.inverse_on_entry = c.inverse_proj_view]))))
\* update_projviews that clears the inverse when the inversion fails
update_projviews_clearing(c) ==
    Let(view_transform(c), LAMBDA v :
    Let(c.projection, LAMBDA p :
    Let(MatMul(p, v), LAMBDA pv :
    Let(TryInverse(pv), LAMBDA inv :
        [c EXCEPT !.view = v, !.proj = p, !.proj_view = pv,
                  !.inverse_proj_view = IF inv = None THEN ZeroMatrix ELSE inv[1],
                  !.inverse_on_entry = c.inverse_proj_view]))))
update_projviews(c) ==
    Let(view_transform(c), LAMBDA v :
    Let(c.projection, LAMBDA p :
    Let(MatMul(p, v), LAMBDA pv :
    Let(TryInverse(pv), LAMBDA inv :
        [c EXCEPT !.view = v, !.proj = p, !.proj_view = pv,
                  !.inverse_proj_view = IF inv = None THEN @ ELSE inv[1],
                  !.inverse_on_entry = c.inverse_proj_view]))))

update_restrictions(c) ==
    Let(IF fLe(c.pitch, PitchMargin) THEN PitchMargin ELSE c.pitch, LAMBDA p1 :
    Let(IF fGt(p1, PI - PitchMargin) THEN PI - PitchMargin ELSE p1, LAMBDA p2 :
        [c EXCEPT !.pitch = p2]))

\* look_at with the arguments of atan2 exchanged
look_at_yaw_exchanged(c, new_eye, target) ==
    Let(Norm(vSub(new_eye, target)), LAMBDA dist :
    Let(RotApply(c.coord_system.rotation_to_y_up, new_eye), LAMBDA view_eye :
    Let(RotApply(c.coord_system.rotation_to_y_up, target), LAMBDA view_at :
    Let(AcosRatio(fSub(view_at[2], view_eye[2]), dist), LAMBDA new_pitch :
    Let(Atan2(fSub(view_at[1], view_eye[1]), fSub(view_at[3], view_eye[3])), LAMBDA new_yaw :
        update_projviews([c EXCEPT !.eye = new_eye, !.yaw = new_yaw,
                                   !.pitch = new_pitch]))))))
look_at(c, new_eye, target) ==
    Let(Norm(vSub(new_eye, target)), LAMBDA dist :
    Let(RotApply(c.coord_system.rotation_to_y_up, new_eye), LAMBDA view_eye :
    Let(RotApply(c.coord_system.rotation_to_y_up, target), LAMBDA view_at :
    Let(AcosRatio(fSub(view_at[2], view_eye[2]), dist), LAMBDA new_pitch :
    Let(Atan2(fSub(view_at[3], view_eye[3]), fSub(view_at[1], view_eye[1])), LAMBDA new_yaw :
        update_projviews([c EXCEPT !.eye = new_eye, !.yaw = new_yaw,
                                   !.pitch = new_pitch]))))))

\* FirstPerson::new_with_frustrum
new_with_frustrum(fov, znear, zfar, new_eye, target) ==
    look_at([eye |-> Zero3, yaw |-> 0, pitch |-> 0,
             yaw_step |-> DefaultStep, pitch_step |-> DefaultStep,
             move_step |-> DefaultMoveStep,
             rotate_button |-> "Button1", drag_button |-> "Button2",
             up_key |-> "Up", down_key |-> "Down",
             left_key |-> "Left", right_key |-> "Right",
             projection |-> PerspectiveNew(fDiv(800 * One, 600 * One), fov, znear, zfar),
             proj |-> ZeroMatrix, view |-> ZeroMatrix, proj_view |-> ZeroMatrix,
             inverse_proj_view |-> ZeroMatrix, last_cursor_pos |-> <<0, 0>>,
             coord_system |-> from_up_axis(YAxis),
             inverse_on_entry |-> ZeroMatrix],
            new_eye, target)

\* new with eye and at exchanged
new_exchanged(new_eye, target) ==
    new_with_frustrum(fDiv(PI, 4 * One), 100, 1024 * One, target, new_eye)
\* FirstPerson::new
new(new_eye, target) ==
    new_with_frustrum(fDiv(PI, 4 * One), 100, 1024 * One, new_eye, target)

\* handle_left_button_displacement with the components of dpos exchanged
handle_left_button_displacement_exchanged(c, dpos) ==
    update_projviews(update_restrictions(
        [c EXCEPT !.yaw = fAdd(c.yaw, fMul(dpos[2], c.yaw_step)),
                  !.pitch = fAdd(c.pitch, fMul(dpos[1], c.pitch_step))]))
handle_left_button_displacement(c, dpos) ==
    update_projviews(update_restrictions(
        [c EXCEPT !.yaw = fAdd(c.yaw, fMul(dpos[1], c.yaw_step)),
                  !.pitch = fAdd(c.pitch, fMul(dpos[2], c.pitch_step))]))

handle_right_button_displacement(c, dpos) ==
    Let(Normalize(vSub(at(c), c.eye)), LAMBDA dir :
    Let(Normalize(Cross(c.coord_system.up_axis, dir)), LAMBDA tangent :
    Let(Cross(dir, tangent), LAMBDA bitangent :
    Let(vAdd(vAdd(c.eye, vScale(tangent, fDiv(fMul(PanScale, dpos[1]), PanDivisor))),
             vScale(bitangent, fDiv(fMul(PanScale, dpos[2]), PanDivisor))), LAMBDA moved :
        update_projviews(update_restrictions([c EXCEPT !.eye = moved]))))))

handle_scroll(c, yoff) ==
    Let(RotApply(observer_frame(c), ZAxis), LAMBDA front :
        update_projviews(update_restrictions(
            [c EXCEPT !.eye = vAdd(c.eye, vScale(front, fMul(c.move_step, yoff)))])))

\* FirstPerson::eye_dir
eye_dir(c) == Normalize(vSub(at(c), c.eye))

\* move_dir without the is_zero test: the movement is always normalized
move_dir_always_normalized(c, up, down, right, left) ==
    Let(observer_frame(c), LAMBDA t :
    Let(RotApply(t, ZAxis), LAMBDA frontv :
    Let(RotApply(t, XAxis), LAMBDA rightv :
    Let(IF up THEN vAdd(Zero3, frontv) ELSE Zero3, LAMBDA m1 :
    Let(IF down THEN vSub(m1, frontv) ELSE m1, LAMBDA m2 :
    Let(IF right THEN vSub(m2, rightv) ELSE m2, LAMBDA m3 :
    Let(IF left THEN vAdd(m3, rightv) ELSE m3, LAMBDA movement :
        Normalize(movement))))))))
\* FirstPerson::move_dir
move_dir(c, up, down, right, left) ==
    Let(observer_frame(c), LAMBDA t :
    Let(RotApply(t, ZAxis), LAMBDA frontv :
    Let(RotApply(t, XAxis), LAMBDA rightv :
    Let(IF up THEN vAdd(Zero3, frontv) ELSE Zero3, LAMBDA m1 :
    Let(IF down THEN vSub(m1, frontv) ELSE m1, LAMBDA m2 :
    Let(IF right THEN vSub(m2, rightv) ELSE m2, LAMBDA m3 :
    Let(IF left THEN vAdd(m3, rightv) ELSE m3, LAMBDA movement :
        IF IsZero3(movement) THEN movement ELSE Normalize(movement))))))))

\* set_eye without the recomputation of the matrices
set_eye_without_update(c, new_eye) == update_restrictions([c EXCEPT !.eye = new_eye])
set_eye(c, new_eye) ==
    update_projviews(update_restrictions([c EXCEPT !.eye = new_eye]))

\* FirstPerson::translate_mut: t * eye is eye moved by t
translate_mut(c, t) == set_eye(c, vAdd(c.eye, t))

\* set_up_axis_dir reading at() after the coordinate system is replaced
set_up_axis_dir_late_at(c, up_axis) ==
    IF vNe(c.coord_system.up_axis, up_axis)
    THEN Let(from_up_axis(up_axis), LAMBDA new_coord_system :
         Let([c EXCEPT !.coord_system = new_coord_system], LAMBDA c1 :
             look_at(c1, c.eye, at(c1))))
    ELSE c
set_up_axis_dir(c, up_axis) ==
    IF vNe(c.coord_system.up_axis, up_axis)
    THEN Let(from_up_axis(up_axis), LAMBDA new_coord_system :
         Let(at(c), LAMBDA old_at :
             look_at([c EXCEPT !.coord_system = new_coord_system], c.eye, old_at)))
    ELSE c

\* FirstPerson::set_up_axis
set_up_axis(c, up) == set_up_axis_dir(c, Normalize(up))

\* Vector2 difference
v2Sub(a, b) == <<fSub(a[1], b[1]), fSub(a[2], b[2])>>

\* check_optional_key_state(canvas, key, Action::Press); pressed is the set
\* of keys for which canvas.get_key reports Action::Press
check_optional_key_state(pressed, key) ==
    IF key # "None" THEN key \in pressed ELSE FALSE

\* Camera::update
update(c, pressed) ==
    LET up == check_optional_key_state(pressed, c.up_key)
        down == check_optional_key_state(pressed, c.down_key)
        right == check_optional_key_state(pressed, c.right_key)
        left == check_optional_key_state(pressed, c.left_key)
    IN  Let(move_dir(c, up, down, right, left), LAMBDA dir :
        Let(vScale(dir, c.move_step), LAMBDA move_amount :
            translate_mut(c, move_amount)))

\* the CursorPos arm recording the position only when a gesture ran
handle_cursor_pos_recording_gestures(c, curr_pos, buttons) ==
    Let(IF c.rotate_button # "None" /\ c.rotate_button \in buttons
        THEN handle_left_button_displacement(c, v2Sub(curr_pos, c.last_cursor_pos))
        ELSE c, LAMBDA c1 :
    Let(IF c1.drag_button # "None" /\ c1.drag_button \in buttons
        THEN handle_right_button_displacement(c1, v2Sub(curr_pos, c1.last_cursor_pos))
        ELSE c1, LAMBDA c2 :
        IF Fields(c2) = Fields(c) THEN c2 ELSE [c2 EXCEPT !.last_cursor_pos = curr_pos]))
\* the cursor handler applying the pan before the rotation
handle_cursor_pos_pan_first(c, curr_pos, buttons) ==
    Let(IF c.drag_button # "None" /\ c.drag_button \in buttons
        THEN handle_right_button_displacement(c, v2Sub(curr_pos, c.last_cursor_pos))
        ELSE c, LAMBDA c1 :
    Let(IF c1.rotate_button # "None" /\ c1.rotate_button \in buttons
        THEN handle_left_button_displacement(c1, v2Sub(curr_pos, c1.last_cursor_pos))
        ELSE c1, LAMBDA c2 :
        [c2 EXCEPT !.last_cursor_pos = curr_pos]))
\* Camera::handle_event, WindowEvent::CursorPos(x, y, _); buttons is the set
\* of mouse buttons for which canvas.get_mouse_button reports Action::Press
handle_cursor_pos(c, curr_pos, buttons) ==
    Let(IF c.rotate_button # "None" /\ c.rotate_button \in buttons
        THEN handle_left_button_displacement(c, v2Sub(curr_pos, c.last_cursor_pos))
        ELSE c, LAMBDA c1 :
    Let(IF c1.drag_button # "None" /\ c1.drag_button \in buttons
        THEN handle_right_button_displacement(c1, v2Sub(curr_pos, c1.last_cursor_pos))
        ELSE c1, LAMBDA c2 :
        [c2 EXCEPT !.last_cursor_pos = curr_pos]))

\* the quotient w as f32 / h as f32 of two u32
AspectOf(w, h) == fDiv(w * One, h * One)

\* the resize handler recomputing the matrices before it sets the aspect
handle_framebuffer_size_update_first(c, w, h) ==
    [update_projviews(c) EXCEPT !.projection = SetAspect(@, AspectOf(w, h))]
\* Camera::handle_event, WindowEvent::FramebufferSize(w, h)
handle_framebuffer_size(c, w, h) ==
    update_projviews([c EXCEPT !.projection = SetAspect(@, AspectOf(w, h))])

-----------------------------------------------------------------------------
(* The calls made on the camera, with the arguments they are made with      *)

MaxSteps == 2

\* (eye, at) pairs: level, straight up, oblique
LookPairs ==
    { << <<0, 0, 5000>>, <<0, 0, 0>> >>,
      << <<0, 0, 0>>, <<0, 1000, 0>> >>,
      << <<1000, 2000, 3000>>, <<4000, 6000, 3000>> >> }
\* the pairs the camera is constructed with: those, and eye = at
NewPairs == LookPairs \cup { << <<0, 0, 0>>, <<0, 0, 0>> >> }
\* (fov, znear, zfar, eye, at) of a new_with_frustrum call with znear = 0
FrustumArgs == { <<fDiv(PI, 2 * One), 0, 1024 * One, <<0, 0, 5000>>, <<0, 0, 0>> >> }
UpAxes == { XAxis, vNeg(YAxis) }
UpVectors == { <<0, 0, 2000>> }
\* cursor positions, each with the mouse buttons the canvas reports pressed
CursorEvents ==
    { <<p, b>> : p \in { <<10000, 0>> }, b \in SUBSET {"Button1", "Button2"} }
    \cup { <<p, b>> : p \in { <<30000, -620000>> },
                      b \in { {"Button1"}, {"Button1", "Button2"} } }
Displacements == { <<10000, 0>>, <<0, -400000>> }
ScrollOffsets == { 0, 1000 }
Widths == { 0, 600 }
Heights == { 0, 600 }
KeyStates == { {}, {"Up"}, {"Up", "Down"}, {"Up", "Left", "W"} }
Translations == { <<1000, 0, -500>> }
RotateButtons == { "None", "Button2" }
DragButtons == { "None", "Button1" }
UpKeys == { "None", "W" }
StepValues == { 10 }
MoveStepValues == { 1000 }

NoArg == <<>>
Op(name, a, b, pressed) == [name |-> name, a |-> a, b |-> b, pressed |-> pressed]

\* the camera becomes c
Install(c) ==
    /\ eye' = c.eye /\ yaw' = c.yaw /\ pitch' = c.pitch
    /\ yaw_step' = c.yaw_step /\ pitch_step' = c.pitch_step
    /\ move_step' = c.move_step
    /\ rotate_button' = c.rotate_button /\ drag_button' = c.drag_button
    /\ up_key' = c.up_key /\ down_key' = c.down_key
    /\ left_key' = c.left_key /\ right_key' = c.right_key
    /\ projection' = c.projection /\ proj' = c.proj /\ view' = c.view
    /\ proj_view' = c.proj_view /\ inverse_proj_view' = c.inverse_proj_view
    /\ last_cursor_pos' = c.last_cursor_pos /\ coord_system' = c.coord_system
    /\ inverse_on_entry' = c.inverse_on_entry

Call(c, o) ==
    /\ steps < MaxSteps
    /\ Install(c)
    /\ op' = o
    /\ before' = Self
    /\ steps' = steps + 1

\* the variables hold the camera c
Holds(c) ==
    /\ eye = c.eye /\ yaw = c.yaw /\ pitch = c.pitch
    /\ yaw_step = c.yaw_step /\ pitch_step = c.pitch_step
    /\ move_step = c.move_step
    /\ rotate_button = c.rotate_button /\ drag_button = c.drag_button
    /\ up_key = c.up_key /\ down_key = c.down_key
    /\ left_key = c.left_key /\ right_key = c.right_key
    /\ projection = c.projection /\ proj = c.proj /\ view = c.view
    /\ proj_view = c.proj_view /\ inverse_proj_view = c.inverse_proj_view
    /\ last_cursor_pos = c.last_cursor_pos /\ coord_system = c.coord_system
    /\ inverse_on_entry = c.inverse_on_entry

\* FirstPerson::new(eye, at)
InitNew ==
    \E p \in NewPairs :
        \E c \in {new(p[1], p[2])} :
            Holds(c) /\ op = Op("new", p[1], p[2], {}) /\ before = c /\ steps = 0
\* FirstPerson::new_with_frustrum(fov, znear, zfar, eye, at)
InitNewWithFrustrum ==
    \E f \in FrustumArgs :
        \E c \in {new_with_frustrum(f[1], f[2], f[3], f[4], f[5])} :
            Holds(c) /\ op = Op("new_with_frustrum", f[4], f[5], {}) /\ before = c
                     /\ steps = 0
Init == InitNew \/ InitNewWithFrustrum

LookAt ==
    \E p \in LookPairs : Call(look_at(Self, p[1], p[2]), Op("look_at", p[1], p[2], {}))
SetUpAxisDir ==
    \E u \in UpAxes : Call(set_up_axis_dir(Self, u), Op("set_up_axis_dir", u, NoArg, {}))
SetUpAxis ==
    \E u \in UpVectors : Call(set_up_axis(Self, u), Op("set_up_axis", u, NoArg, {}))
HandleLeftButtonDisplacement ==
    \E d \in Displacements :
        Call(handle_left_button_displacement(Self, d),
             Op("handle_left_button_displacement", d, NoArg, {}))
HandleRightButtonDisplacement ==
    \E d \in Displacements :
        Call(handle_right_button_displacement(Self, d),
             Op("handle_right_button_displacement", d, NoArg, {}))
\* handle_event with WindowEvent::CursorPos
CursorPos ==
    \E e \in CursorEvents :
        Call(handle_cursor_pos(Self, e[1], e[2]), Op("cursor_pos", e[1], NoArg, e[2]))
\* handle_event with WindowEvent::Scroll, which is handle_scroll(off)
Scroll ==
    \E off \in ScrollOffsets : Call(handle_scroll(Self, off), Op("scroll", <<off>>, NoArg, {}))
\* handle_event with WindowEvent::FramebufferSize; Perspective3::set_aspect
\* panics on a zero aspect ratio
FramebufferSize ==
    \E w \in Widths, h \in Heights :
        /\ AspectOf(w, h) # 0
        /\ Call(handle_framebuffer_size(Self, w, h), Op("framebuffer_size", <<w, h>>, NoArg, {}))
\* the default arm running set_eye(eye) instead of nothing
OtherEvent_setting_eye == Call(set_eye(Self, eye), Op("other_event", NoArg, NoArg, {}))
\* handle_event with any other event
OtherEvent == Call(Self, Op("other_event", NoArg, NoArg, {}))
Update ==
    \E k \in KeyStates : Call(update(Self, k), Op("update", NoArg, NoArg, k))
TranslateMut ==
    \E t \in Translations : Call(translate_mut(Self, t), Op("translate_mut", t, NoArg, {}))
RebindRotateButton ==
    \E b \in RotateButtons :
        Call([Self EXCEPT !.rotate_button = b], Op("rebind_rotate_button", NoArg, NoArg, {b}))
RebindDragButton ==
    \E b \in DragButtons :
        Call([Self EXCEPT !.drag_button = b], Op("rebind_drag_button", NoArg, NoArg, {b}))
RebindUpKey ==
    \E k \in UpKeys : Call([Self EXCEPT !.up_key = k], Op("rebind_up_key", NoArg, NoArg, {k}))
RebindDownKey ==
    \E k \in {"None"} : Call([Self EXCEPT !.down_key = k], Op("rebind_down_key", NoArg, NoArg, {k}))
RebindLeftKey ==
    \E k \in {"None"} : Call([Self EXCEPT !.left_key = k], Op("rebind_left_key", NoArg, NoArg, {k}))
RebindRightKey ==
    \E k \in {"None"} : Call([Self EXCEPT !.right_key = k], Op("rebind_right_key", NoArg, NoArg, {k}))
UnbindMovementKeys ==
    Call([Self EXCEPT !.up_key = "None", !.down_key = "None",
                      !.left_key = "None", !.right_key = "None"],
         Op("unbind_movement_keys", NoArg, NoArg, {}))
SetMoveStep ==
    \E v \in MoveStepValues :
        Call([Self EXCEPT !.move_step = v], Op("set_move_step", <<v>>, NoArg, {}))
SetPitchStep ==
    \E v \in StepValues :
        Call([Self EXCEPT !.pitch_step = v], Op("set_pitch_step", <<v>>, NoArg, {}))
SetYawStep ==
    \E v \in StepValues :
        Call([Self EXCEPT !.yaw_step = v], Op("set_yaw_step", <<v>>, NoArg, {}))

Next ==
    \/ LookAt \/ SetUpAxisDir \/ SetUpAxis
    \/ HandleLeftButtonDisplacement \/ HandleRightButtonDisplacement
    \/ CursorPos \/ Scroll \/ FramebufferSize \/ OtherEvent
    \/ Update \/ TranslateMut
    \/ RebindRotateButton \/ RebindDragButton
    \/ RebindUpKey \/ RebindDownKey \/ RebindLeftKey \/ RebindRightKey
    \/ UnbindMovementKeys
    \/ SetMoveStep \/ SetPitchStep \/ SetYawStep

Spec == Init /\ [][Next]_vars


-----------------------------------------------------------------------------
(* Properties of the camera                                                *)

Tol == 20
\* a and b are the same stored value (NaN included), or numbers at most Tol
\* apart; Tol covers the rounding of three-decimal arithmetic, which next to
\* the vertical is amplified by acos
Near(a, b) == a = b \/ (a # NaN /\ b # NaN /\ Abs(a - b) <= Tol)
Near3(a, b) == Near(a[1], b[1]) /\ Near(a[2], b[2]) /\ Near(a[3], b[3])

\* pitch is a number within the clamp of update_restrictions
PitchRestricted == fLe(PitchMargin, pitch) /\ fLe(pitch, PI - PitchMargin)

\* C1: after construction and after every mutating operation, pitch lies in
\* [0.01, pi - 0.01].
C1_PitchWithinRestrictions == PitchRestricted

\* C2: in every state, the cached proj_view is the product of the cached proj
\* and the cached view.
C2_ProjViewIsProduct == proj_view = MatMul(proj, view)
\* a resize to 600 x 600 has recomputed the product
C2_Witness ==
    /\ op.name = "framebuffer_size" /\ op.a = <<600, 600>>
    /\ proj[1][1] = proj[2][2] /\ proj_view # ZeroMatrix
    /\ proj_view = MatMul(proj, view)

\* C3: the cached view is the look-at view of the current eye, yaw, pitch and
\* up axis, and the cached proj is the matrix of the current projection.
C3_CachesNotStale == view = view_transform(Self) /\ proj = projection
\* a translation has moved the eye and the view follows it
C3_Witness ==
    /\ op.name = "translate_mut" /\ op.a # Zero3
    /\ eye = <<1000, 0, 4500>>
    /\ view = view_transform(Self) /\ view[3][4] = -4500

\* C4: when the recomputed proj_view cannot be inverted, inverse_proj_view
\* is what the recomputation found (the zero matrix when no inversion has
\* succeeded); when it can, inverse_proj_view is its inverse; in both cases
\* view, proj and proj_view are those of the new state.
C4_InverseKeptOrRecomputed ==
    /\ Let(TryInverse(proj_view), LAMBDA inv :
           IF inv = None
           THEN /\ inverse_proj_view = inverse_on_entry
                /\ steps = 0 => inverse_proj_view = ZeroMatrix
           ELSE inverse_proj_view = inv[1])
    /\ view = view_transform(Self) /\ proj = projection
    /\ proj_view = MatMul(proj, view)
\* a resize to height 0 has left a proj_view that cannot be inverted, and the
\* inverse computed before it is still there
C4_Witness ==
    /\ op.name = "framebuffer_size" /\ op.a = <<600, 0>>
    /\ Determinant(proj_view) = 0
    /\ proj_view = MatMul(projection, view) /\ proj_view # before.proj_view
    /\ inverse_proj_view = before.inverse_proj_view
    /\ Some(inverse_proj_view) = TryInverse(before.proj_view)

\* a camera constructed with znear = 0 has never inverted its proj_view
C4_WitnessNeverInverted ==
    /\ op.name = "new_with_frustrum" /\ Determinant(proj_view) = 0
    /\ inverse_proj_view = ZeroMatrix /\ proj_view # ZeroMatrix

\* look_at(eye, at) or a constructor has run with eye # at and the direction
\* to at not within the pitch clamp of the vertical
C5_Case ==
    /\ op.name \in {"new", "new_with_frustrum", "look_at"}
    /\ op.a # op.b
    /\ PitchRestricted
\* C5 as stated: after look_at(eye, at), at() is at, within tolerance.
C5_RoundTrip == C5_Case => Near3(at(Self), op.b)
\* C5: after look_at(eye, at), at() is the point one unit from eye in the
\* direction of at, within tolerance.
C5_AtIsOneUnitTowardsTarget ==
    C5_Case => Near3(at(Self), vAdd(op.a, Normalize(vSub(op.b, op.a))))
\* look_at to a target five units away: at() is one unit away from eye
C5_Witness ==
    /\ C5_Case /\ op.name = "look_at"
    /\ op.a = <<1000, 2000, 3000>> /\ op.b = <<4000, 6000, 3000>>
    /\ Near3(at(Self), <<1600, 2800, 3000>>)
    /\ ~ Near3(at(Self), op.b)

\* C6: set_up_axis_dir and set_up_axis leave at() where it was, within
\* tolerance, and leave eye unchanged.
C6_UpAxisChangeKeepsTarget ==
    op.name \in {"set_up_axis_dir", "set_up_axis"}
    => Near3(at(Self), at(before)) /\ eye = before.eye
\* the up axis has become -Y, anti-parallel to Y, and the camera looks at a
\* point
C6_Witness ==
    /\ op.name = "set_up_axis_dir" /\ op.a = vNeg(YAxis)
    /\ coord_system.up_axis = vNeg(YAxis)
    /\ coord_system.rotation_to_y_up = << XAxis, vNeg(YAxis), vNeg(ZAxis) >>
    /\ before.coord_system.up_axis = YAxis
    /\ yaw # before.yaw /\ pitch # before.pitch
    /\ ~ HasNaN3(at(Self))

\* the movement keys that were bound and are reported pressed
BoundAndPressed ==
    { k \in {before.up_key, before.down_key, before.left_key, before.right_key} :
        k # "None" /\ k \in op.pressed }
\* C7: update leaves eye unchanged when no bound movement key is pressed.
C7_UpdateWithoutKeysKeepsEye ==
    op.name = "update" /\ BoundAndPressed = {} => eye = before.eye
\* update with keys pressed after unbind_movement_keys
C7_Witness ==
    /\ op.name = "update" /\ op.pressed # {}
    /\ {before.up_key, before.down_key, before.left_key, before.right_key} = {"None"}
    /\ eye = before.eye /\ ~ HasNaN3(eye)

\* the button was bound and is reported pressed
ButtonActive(button) == button # "None" /\ button \in op.pressed
\* C8: a cursor-move event changes yaw or pitch only if the rotate button is
\* bound and pressed, and changes eye only if the drag button is bound and
\* pressed.
C8_CursorMoveNeedsButton ==
    op.name = "cursor_pos"
    => /\ (yaw # before.yaw \/ pitch # before.pitch) => ButtonActive(before.rotate_button)
       /\ eye # before.eye => ButtonActive(before.drag_button)

\* C9: handle_left_button_displacement(dpos) sets yaw to yaw + dpos.x *
\* yaw_step (0.05 more for dpos = (10, 0) at the default yaw_step), leaves
\* eye unchanged and, for dpos.y = 0, changes pitch by the clamp only.
C9_LeftButtonDisplacement ==
    op.name = "handle_left_button_displacement"
    => /\ yaw = fAdd(before.yaw, fMul(op.a[1], before.yaw_step))
       /\ (op.a = <<10 * One, 0>> /\ before.yaw_step = DefaultStep /\ before.yaw # NaN
           => yaw = before.yaw + 50)
       /\ eye = before.eye
       /\ op.a[2] = 0 => pitch = update_restrictions(before).pitch
\* a displacement of (10, 0) on the camera looking down -Z from (0, 0, 5)
C9_Witness ==
    /\ op.name = "handle_left_button_displacement" /\ op.a = <<10 * One, 0>>
    /\ before.yaw_step = DefaultStep
    /\ before.yaw = -HalfPi /\ yaw = -HalfPi + 50
    /\ pitch = HalfPi /\ pitch = before.pitch
    /\ eye = <<0, 0, 5000>> /\ eye = before.eye

\* C10: when the up key is the only bound movement key that is pressed,
\* update moves eye to eye + eye_dir() * move_step, within tolerance.
C10_UpMovesAlongEyeDir ==
    op.name = "update" /\ BoundAndPressed = {before.up_key}
    => Near3(eye, vAdd(before.eye, vScale(eye_dir(before), before.move_step)))

\* new(eye = (0, 0, 5), at = (0, 0, 0)) has just returned
C11_Case == op.name = "new" /\ op.a = <<0, 0, 5 * One>> /\ op.b = Zero3 /\ steps = 0
\* C11 as stated: that camera has pitch = pi / 2, yaw = pi and
\* eye_dir() = (0, 0, -1), within tolerance.
C11_YawIsPi ==
    C11_Case => /\ Near(pitch, HalfPi) /\ Near(yaw, PI)
                /\ Near3(eye_dir(Self), <<0, 0, -One>>)
\* C11: that camera has pitch = pi / 2, yaw = atan2(-5, 0) = -pi / 2 and
\* eye_dir() = (0, 0, -1), within tolerance.
C11_YawIsMinusHalfPi ==
    C11_Case => /\ Near(pitch, HalfPi) /\ Near(yaw, -HalfPi)
                /\ Near3(eye_dir(Self), <<0, 0, -One>>)
\* the camera constructed at (0, 0, 5) looking at the origin, up axis Y
C11_Witness ==
    /\ C11_Case /\ coord_system.up_axis = YAxis
    /\ eye = <<0, 0, 5 * One>> /\ yaw < 0 /\ ~ Near(yaw, PI)
    /\ Near3(at(Self), <<0, 0, 4 * One>>)

\* C12: after a FramebufferSize(w, h) event, a second FramebufferSize(w, h)
\* event leaves every field of the camera as the first left it.
C12_ResizeIdempotent ==
    op.name = "framebuffer_size"
    => Fields(handle_framebuffer_size(Self, op.a[1], op.a[2])) = Fields(Self)
\* a resize to 600 x 600 has changed the projection and its matrices
C12_Witness ==
    /\ op.name = "framebuffer_size" /\ op.a = <<600, 600>>
    /\ projection # before.projection /\ proj_view # before.proj_view
    /\ ~ MatHasNaN(proj_view)
    /\ Fields(handle_framebuffer_size(Self, 600, 600)) = Fields(Self)

\* C13: handle_event with an event other than CursorPos, Scroll and
\* FramebufferSize leaves every field of the camera unchanged.
C13_OtherEventIgnored == op.name = "other_event" => Self = before
\* another event delivered to a camera whose pitch is outside the clamp or
\* whose cursor position is not the initial one
C13_Witness ==
    /\ op.name = "other_event" /\ steps = MaxSteps
    /\ Self = before
    /\ (last_cursor_pos # <<0, 0>> \/ (pitch # NaN /\ ~ PitchRestricted))

\* C14: last_cursor_pos is zero after construction, is the event's position
\* after a CursorPos event whatever the buttons, and is left unchanged by
\* every other operation; the rotation of a CursorPos event is by the
\* difference between its position and the previous last_cursor_pos.
C14_LastCursorPos ==
    /\ steps = 0 => last_cursor_pos = <<0, 0>>
    /\ steps > 0 =>
         last_cursor_pos = IF op.name = "cursor_pos" THEN op.a
                           ELSE before.last_cursor_pos
    /\ op.name = "cursor_pos" /\ ButtonActive(before.rotate_button) =>
         yaw = fAdd(before.yaw, fMul(fSub(op.a[1], before.last_cursor_pos[1]),
                                     before.yaw_step))
\* a second CursorPos event, 20 to the right of the first, has rotated the
\* camera by 20 * yaw_step
C14_Witness ==
    /\ op.name = "cursor_pos" /\ op.a = <<30 * One, -620 * One>>
    /\ before.last_cursor_pos = <<10 * One, 0>>
    /\ last_cursor_pos = op.a
    /\ ButtonActive(before.rotate_button) /\ before.yaw_step = DefaultStep
    /\ before.yaw # NaN /\ yaw = before.yaw + 100
\* a CursorPos event with no button pressed has been recorded
C14_WitnessNoButton ==
    /\ op.name = "cursor_pos" /\ op.pressed = {}
    /\ before.last_cursor_pos # op.a /\ last_cursor_pos = op.a

\* the keys cancel: up = down and right = left
Cancelling(up, down, right, left) == (up <=> down) /\ (right <=> left)
\* what update read from the canvas for a key binding of the camera before
KeyRead(key) == check_optional_key_state(op.pressed, key)
\* C15: on every camera, move_dir(up, down, right, left) is the zero vector
\* when up = down and right = left and a vector of length 1 otherwise; an
\* update that reads such cancelling keys leaves eye unchanged.
C15_OpposingKeysCancel ==
    /\ \A up, down, right, left \in BOOLEAN :
         IF Cancelling(up, down, right, left)
         THEN move_dir(Self, up, down, right, left) = Zero3
         ELSE Near(Norm(move_dir(Self, up, down, right, left)), One)
    /\ op.name = "update"
       /\ Cancelling(KeyRead(before.up_key), KeyRead(before.down_key),
                     KeyRead(before.right_key), KeyRead(before.left_key))
       => eye = before.eye

\* C16: handle_right_button_displacement leaves yaw and pitch unchanged.
C16_PanKeepsOrientation ==
    op.name = "handle_right_button_displacement"
    => yaw = before.yaw /\ pitch = before.pitch

\* the axis a set_up_axis_dir or set_up_axis call asks for
RequestedUpAxis == IF op.name = "set_up_axis" THEN Normalize(op.a) ELSE op.a
\* C17: rotation_to_y_up maps up_axis onto +Y, within tolerance; coord_system
\* is the one of the constructor unless set_up_axis_dir or set_up_axis has
\* replaced it, which they do only for an axis other than the current one.
C17_RotationToYUp ==
    /\ Near3(RotApply(coord_system.rotation_to_y_up, coord_system.up_axis), YAxis)
    /\ steps = 0 => coord_system.up_axis = YAxis
    /\ steps > 0 /\ op.name \notin {"set_up_axis_dir", "set_up_axis"}
       => coord_system = before.coord_system
    /\ op.name \in {"set_up_axis_dir", "set_up_axis"}
       => IF vNe(before.coord_system.up_axis, RequestedUpAxis)
          THEN coord_system.up_axis = RequestedUpAxis
          ELSE coord_system = before.coord_system
\* the up axis has been set to -Y and the fallback rotation maps it onto +Y
C17_Witness ==
    /\ op.name = "set_up_axis_dir" /\ op.a = vNeg(YAxis)
    /\ before.coord_system.up_axis # vNeg(YAxis)
    /\ coord_system.up_axis = vNeg(YAxis)
    /\ coord_system.rotation_to_y_up # Identity3
    /\ RotApply(coord_system.rotation_to_y_up, vNeg(YAxis)) = YAxis

\* the displacement of the last cursor event, from the position recorded
\* before the event
C18_dpos == v2Sub(op.a, before.last_cursor_pos)
\* the last call was a cursor event with both gestures bound and pressed
C18_Case ==
    /\ op.name = "cursor_pos"
    /\ ButtonActive(before.rotate_button)
    /\ ButtonActive(before.drag_button)
\* C18: a cursor event with both the rotate and the drag button bound and
\* pressed applies the rotation and then the pan, both with the displacement
\* from the position recorded before the event; the pan uses the yaw and pitch
\* the rotation has set, and last_cursor_pos is written once, after both.
C18_RotationThenPan ==
    C18_Case =>
        Let(handle_left_button_displacement(before, C18_dpos), LAMBDA rotated :
            /\ rotated.last_cursor_pos = before.last_cursor_pos
            /\ Fields(Self) =
                 Fields([handle_right_button_displacement(rotated, C18_dpos)
                           EXCEPT !.last_cursor_pos = op.a]))
\* both gestures have acted on one event, and the order they acted in shows
C18_Witness ==
    /\ C18_Case
    /\ yaw # before.yaw /\ yaw # NaN
    /\ eye # before.eye /\ ~ HasNaN3(eye)
    /\ last_cursor_pos = op.a /\ op.a # before.last_cursor_pos
    /\ eye # handle_left_button_displacement(
                 handle_right_button_displacement(before, C18_dpos), C18_dpos).eye
\* both gestures are bound to the same button
C18_WitnessSameButton ==
    /\ C18_Case
    /\ before.rotate_button = before.drag_button
    /\ yaw # before.yaw /\ eye # before.eye /\ ~ HasNaN3(eye)

\* C19: update with no bound movement key pressed changes no field of the
\* camera, and neither do handle_scroll(0) and translate_mut by the zero
\* translation, from every reachable state.
C19_UpdateWithoutKeysIsNoOp ==
    /\ op.name = "update" /\ BoundAndPressed = {} => Fields(Self) = Fields(before)
    /\ op.name = "scroll" /\ op.a = <<0>> => Fields(Self) = Fields(before)
    /\ Fields(translate_mut(Self, Zero3)) = Fields(Self)

=============================================================================
